---- MODULE Spec2Model ----
(***************************************************************************)
(* Model of the multi-agent task scheduler (AgentScheduler, in             *)
(* src/src/core/types.ts) driving CliSpawner runs (src/src/utils/          *)
(* cli-spawn.ts).                                                          *)
(*                                                                         *)
(* One action is one macrotask of the Node event loop together with the    *)
(* promise continuations it schedules: a public call, a timer callback or  *)
(* a child-process callback followed by the consumer loop of startAgent    *)
(* draining the events that callback queued.                               *)
(*                                                                         *)
(* The handlers are operators on the scheduler's state as one record; the  *)
(* specifications at the end combine the actions by the environment they   *)
(* describe (plain processes, the clock, a batch of tasks, callers of      *)
(* startAgent or updateTaskStatus, processes that fail to start).          *)
(* removeTask and unregisterAgent are not modelled.                        *)
(***************************************************************************)
EXTENDS Integers, Sequences, FiniteSets, TLC

\* ------------------------------------------------------------------ bounds
TaskIds == {"T1", "T2", "T3"}
AgentIds == {"A1", "A2"}
None == "none"

\* Number of startAgent invocations (runs) whose process or consumer loop
\* exists at the same time.
MaxRuns == 3
\* Largest value passed to setMaxConcurrentAgents.
MaxConc == 2
\* How many of the last lines of task.logs the model keeps.
LogTail == 1
\* config.taskQueueSize the scheduler is constructed with, and the larger
\* one of the batch configuration.
TaskQueueSize == 2
BatchQueueSize == 3
\* Lines one stdout chunk completes at most, events one stream carries at
\* most, and abort() calls made on one spawner at most.
MaxLines == 2
MaxPushed == 4
MaxAborts == 2
\* Commits one working tree receives at most.
MaxCommits == 2

ExitCodes == {"0", "1", "null"}
SpawnErrorCode == "-2"

\* ------------------------------------------------------------------- state
VARIABLES
  taskQueueSize,        \* config.taskQueueSize
  running,              \* AgentScheduler.running
  maxConcurrentAgents,  \* config.maxConcurrentAgents
  taskOrder,            \* insertion order of the keys of taskQueue
  tasks,                \* taskQueue: id -> TaskDefinition ("absent" when not in the map)
  agentOrder,           \* insertion order of the keys of agents
  agents,               \* agents: id -> AgentInstance ("unreg" when not in the map)
  spawners,             \* spawners: agent id -> run whose CliSpawner is registered, or 0
  runs,                 \* slot -> the startAgent invocation in it: its CliSpawner, process and consumer loop
  git,                  \* a working tree under GitManager: status codes, commits, the last call's outcome
  dirs,                 \* task.worktreePath and agent.config.workdir, by id
  stream,               \* a CliSpawner used on its own: its fields and the consumer of spawn()
  topo                  \* what the caller's last getTopologicalOrder() gave: the order, or the id the error names

vars == <<taskQueueSize, running, maxConcurrentAgents, taskOrder, tasks, agentOrder, agents,
          spawners, runs, git, dirs, stream, topo>>

\* The scheduler's state as one value, so that the handlers compose as functions.
\* ev collects what a handler emits and signals: it is part of a handler's
\* result, not of the stored state.
Cur ==
  [qsize |-> taskQueueSize, running |-> running, maxc |-> maxConcurrentAgents,
   taskOrder |-> taskOrder,
   tasks |-> tasks, agentOrder |-> agentOrder, agents |-> agents,
   spawners |-> spawners, runs |-> runs, ev |-> {}, overflow |-> FALSE]

\* logs is the tail of task.logs: its last LogTail lines.
AbsentTask == [status |-> "absent", deps |-> {}, assignedAgent |-> None, logs |-> <<>>]

\* task.logs.push(line), seen through the tail.
Push(logs, line) ==
  LET all == Append(logs, line)
  IN IF Len(all) <= LogTail THEN all ELSE SubSeq(all, Len(all) - LogTail + 1, Len(all))

\* inactive: now - lastActivity exceeds config.timeout; run is the slot of the
\* run that set currentTask (0 when there is none).
UnregAgent == [status |-> "unreg", currentTask |-> None, inactive |-> FALSE, run |-> 0]

Emit(s, e) == [s EXCEPT !.ev = @ \cup {e}]

\* ------------------------------------------------------- CliSpawner (a run)
\* A run is one startAgent invocation: the CliSpawner it creates, the child
\* process, and the for-await loop consuming the spawner's event stream.
\*   proc      live | termed (SIGTERM delivered, not yet exited) | errored
\*             ('error' callback ran, 'close' not yet) | closed
\*   consumer  waiting (suspended in spawn's while loop) | done (generator
\*             returned and startAgent's finally block ran)
\*   aborted   CliSpawner.aborted;  timer: timeoutId is armed
\*   fresh     created in the macrotask that has not yet ended: a spawn
\*             failure is reported right after it
\*   code      the exit code the 'close' callback reported
\*   gate      getRunningAgentCount() < maxConcurrentAgents held when the run
\*             was started
\*   term      the terminal events emitted for this execution attempt, in
\*             order: "taskCompleted" or "taskFailed"
NewRun(a, t, gate) ==
  [agent |-> a, task |-> t, proc |-> "live", consumer |-> "waiting",
   aborted |-> FALSE, timer |-> TRUE, fresh |-> TRUE,
   code |-> None, gate |-> gate, term |-> <<>>]

FreeRun ==
  [agent |-> None, task |-> None, proc |-> "none", consumer |-> "none",
   aborted |-> FALSE, timer |-> FALSE, fresh |-> FALSE,
   code |-> None, gate |-> TRUE, term |-> <<>>]

Slots == 1..MaxRuns
Live(s) == {r \in Slots : s.runs[r].proc # "none"}
FreeSlot(s) ==
  IF Live(s) = Slots THEN 0
  ELSE CHOOSE r \in Slots \ Live(s) : \A q \in Slots \ Live(s) : r <= q

cleanup(s, r) == [s EXCEPT !.runs[r].timer = FALSE]

abort(s, r, reason) ==
  IF s.runs[r].aborted THEN s
  ELSE LET s1 == [s EXCEPT !.runs[r].aborted = TRUE,
                           !.runs[r].proc = IF @ = "live" THEN "termed" ELSE @]
       IN cleanup(Emit(s1, <<"SIGTERM", r>>), r)

\* --------------------------------------------------------- AgentScheduler
getPendingTasks(s) ==
  SelectSeq(s.taskOrder, LAMBDA t : s.tasks[t].status = "pending")

\* areDependenciesMet taking a dependency that is not in the table as met.
areDependenciesMet_SkipsAbsent(s, t) ==
  \A d \in s.tasks[t].deps : s.tasks[d].status \in {"completed", "absent"}

areDependenciesMet(s, t) ==
  \A d \in s.tasks[t].deps : s.tasks[d].status = "completed"

\* getReadyTasks without the dependency filter.
getReadyTasks_AllPending(s) == getPendingTasks(s)

getReadyTasks(s) ==
  SelectSeq(getPendingTasks(s), LAMBDA t : areDependenciesMet(s, t))

getRunningAgentCount(s) ==
  Cardinality({a \in AgentIds : s.agents[a].status = "running"})

\* canStartNewAgent comparing with <= instead of <.
canStartNewAgent_OffByOne(s) == getRunningAgentCount(s) <= s.maxc

canStartNewAgent(s) == getRunningAgentCount(s) < s.maxc

getRunningAgents(s) ==
  SelectSeq(s.agentOrder, LAMBDA a : s.agents[a].status = "running")

\* The idle list of a pass that also admits agents stopAgent has aborted.
IdleAgents_WithAborted(s) ==
  SelectSeq(s.agentOrder, LAMBDA a : s.agents[a].status \in {"idle", "aborted"})

IdleAgents(s) ==
  SelectSeq(s.agentOrder, LAMBDA a : s.agents[a].status = "idle")

\* selectAgentForTask falling back to the first idle agent when the preferred
\* one is not idle.
selectAgentForTask_FallsBack(s, t, idle) ==
  LET pref == s.tasks[t].assignedAgent IN
  IF pref # None /\ \E i \in 1..Len(idle) : idle[i] = pref THEN pref
  ELSE IF idle = <<>> THEN None ELSE idle[1]

selectAgentForTask(s, t, idle) ==
  LET pref == s.tasks[t].assignedAgent IN
  IF pref # None
    THEN IF \E i \in 1..Len(idle) : idle[i] = pref THEN pref ELSE None
    ELSE IF idle = <<>> THEN None ELSE idle[1]

\* The synchronous part of startAgent, up to the first suspension of the
\* for-await loop (the process is spawned by then).  A rejected call (agent
\* unknown, already running, or the concurrency bound reached) changes nothing.
startAgent(s, a, t) ==
  IF s.agents[a].status = "unreg" THEN s
  ELSE IF s.agents[a].status = "running" THEN s
  ELSE IF ~canStartNewAgent(s) THEN s
  ELSE IF FreeSlot(s) = 0 THEN [s EXCEPT !.overflow = TRUE]
  ELSE LET r == FreeSlot(s)
           s1 == [s EXCEPT
                    !.agents[a] = [status |-> "running", currentTask |-> t,
                                   inactive |-> FALSE, run |-> r],
                    !.tasks[t].status = "in_progress",
                    !.tasks[t].assignedAgent = a,
                    !.spawners[a] = r,
                    !.runs[r] = NewRun(a, t, getRunningAgentCount(s) < s.maxc)]
       IN Emit(s1, <<"agentStarted", a>>)

RECURSIVE ScheduleLoop(_, _, _)
ScheduleLoop(s, ready, idle) ==
  IF ready = <<>> THEN s
  ELSE IF ~canStartNewAgent(s) THEN s
  ELSE LET t == Head(ready)
           a == selectAgentForTask(s, t, idle)
       IN ScheduleLoop(IF a # None THEN startAgent(s, a, t) ELSE s, Tail(ready), idle)

scheduleNext(s) ==
  IF ~s.running THEN s
  ELSE ScheduleLoop(s, getReadyTasks(s), IdleAgents(s))

\* stopAgent resolving the task only when it had a spawner to abort.
stopAgent_NeedsSpawner(s, a, reason) ==
  IF s.agents[a].status = "unreg" THEN s
  ELSE
    LET r == s.spawners[a]
        s1 == IF r # 0 THEN [abort(s, r, reason) EXCEPT !.spawners[a] = 0] ELSE s
        s2 == Emit([s1 EXCEPT !.agents[a].status = "aborted"], <<"agentStopped", a>>)
        t == s.agents[a].currentTask
        s3 == IF r # 0 /\ t # None /\ s2.tasks[t].status # "absent"
                THEN Emit([s2 EXCEPT !.tasks[t].status = "failed",
                                     !.runs[s.agents[a].run].term = Append(@, "taskFailed")],
                          <<"taskFailed", t, reason>>)
                ELSE s2
    IN [s3 EXCEPT !.agents[a].currentTask = None, !.agents[a].run = 0]

stopAgent(s, a, reason) ==
  IF s.agents[a].status = "unreg" THEN s
  ELSE
    LET r == s.spawners[a]
        s1 == IF r # 0 THEN [abort(s, r, reason) EXCEPT !.spawners[a] = 0] ELSE s
        s2 == Emit([s1 EXCEPT !.agents[a].status = "aborted"], <<"agentStopped", a>>)
        t == s.agents[a].currentTask
        s3 == IF t # None /\ s2.tasks[t].status # "absent"
                THEN Emit([s2 EXCEPT !.tasks[t].status = "failed",
                                     !.runs[s.agents[a].run].term = Append(@, "taskFailed")],
                          <<"taskFailed", t, reason>>)
                ELSE s2
    IN [s3 EXCEPT !.agents[a].currentTask = None, !.agents[a].run = 0]

completeTask(s, r) ==
  LET t == s.runs[r].task
      a == s.runs[r].agent
      s1 == [s EXCEPT !.tasks[t].status = "completed",
                      !.agents[a].status = "idle",
                      !.agents[a].currentTask = None,
                      !.agents[a].run = 0,
                      !.runs[r].term = Append(@, "taskCompleted")]
  IN scheduleNext(Emit(s1, <<"taskCompleted", t>>))

failTask(s, r, error) ==
  LET t == s.runs[r].task
      a == s.runs[r].agent
      s1 == [s EXCEPT !.tasks[t].status = "failed",
                      !.tasks[t].logs = Push(@, "Error: " \o error),
                      !.agents[a].status = "idle",
                      !.agents[a].currentTask = None,
                      !.agents[a].run = 0,
                      !.runs[r].term = Append(@, "taskFailed")]
  IN scheduleNext(Emit(s1, <<"taskFailed", t, error>>))

\* The text failTask is given for a non-zero exit code.
ExitError(code) == "Agent exited with code " \o code

\* The line handleAgentEvent logs for an event, by the event's type.
EventLine(e) == e[1]

handleAgentEvent(s, r, e) ==
  [s EXCEPT !.tasks[s.runs[r].task].logs = Push(@, EventLine(e))]

\* One iteration of startAgent's for-await body on event e of run r.
ConsumeEvent(s, r, e) ==
  LET s1 == handleAgentEvent([s EXCEPT !.agents[s.runs[r].agent].inactive = FALSE], r, e)
  IN IF e[1] = "exit"
       THEN IF e[2] = "0" THEN completeTask(s1, r)
            ELSE failTask(s1, r, ExitError(e[2]))
       ELSE s1

RECURSIVE ConsumeAll(_, _, _)
ConsumeAll(s, r, es) ==
  IF es = <<>> THEN s ELSE ConsumeAll(ConsumeEvent(s, r, Head(es)), r, Tail(es))

\* The generator returned: startAgent leaves the loop through its finally block.
EndOfStream(s, r) ==
  [s EXCEPT !.spawners[s.runs[r].agent] = 0, !.runs[r].consumer = "done"]

\* A health check that takes every running agent for unresponsive.
Unhealthy_AllRunning(s) == getRunningAgents(s)

\* performHealthCheck with the continuations of handleUnhealthyAgent.
Unhealthy(s) ==
  SelectSeq(getRunningAgents(s), LAMBDA a : s.agents[a].inactive)

RECURSIVE StopAll(_, _, _)
StopAll(s, as, reason) ==
  IF as = <<>> THEN s ELSE StopAll(stopAgent(s, Head(as), reason), Tail(as), reason)

\* The part of handleUnhealthyAgent after its await; t is the task captured
\* before stopAgent ran.
requeue(s, a, t) ==
  LET s1 == [s EXCEPT !.agents[a].status = "idle"]
      s2 == IF t # None /\ s1.tasks[t].status # "absent"
              THEN [s1 EXCEPT !.tasks[t].status = "pending",
                              !.tasks[t].assignedAgent = None]
              ELSE s1
  IN scheduleNext(s2)

RECURSIVE RequeueAll(_, _, _)
RequeueAll(s, as, pre) ==
  IF as = <<>> THEN s
  ELSE RequeueAll(requeue(s, Head(as), pre.agents[Head(as)].currentTask), Tail(as), pre)

performHealthCheck(s) ==
  LET bad == Unhealthy(s)
  IN RequeueAll(StopAll(s, bad, "Health check failed - agent unresponsive"), bad, s)

stop(s) == [s EXCEPT !.running = FALSE]

shutdown(s) ==
  LET s1 == stop(s) IN StopAll(s1, getRunningAgents(s1), "Scheduler shutdown")

start(s) == IF s.running THEN s ELSE scheduleNext([s EXCEPT !.running = TRUE])

setMaxConcurrentAgents(s, n) == IF n < 1 THEN s ELSE [s EXCEPT !.maxc = n]

\* The task record addTask stores: the caller's, with its status overwritten.
StoredTask(deps, pref, status) ==
  [status |-> "pending", deps |-> deps, assignedAgent |-> pref, logs |-> <<>>]

\* addTask refusing only a table that holds more than taskQueueSize tasks.
addTask_OffByOne(s, t, deps, pref, status) ==
  IF Len(s.taskOrder) > s.qsize THEN Emit(s, <<"throw", "Task queue is full">>)
  ELSE IF s.tasks[t].status # "absent" THEN Emit(s, <<"throw", "Task already exists">>)
  ELSE LET s1 == Emit([s EXCEPT !.tasks[t] = StoredTask(deps, pref, status),
                                !.taskOrder = Append(@, t)],
                      <<"taskAdded", t>>)
       IN IF s1.running THEN scheduleNext(s1) ELSE s1

\* deps, pref and status are the dependencies, assignedAgent and status of
\* the task object passed in.
addTask(s, t, deps, pref, status) ==
  IF Len(s.taskOrder) >= s.qsize THEN Emit(s, <<"throw", "Task queue is full">>)
  ELSE IF s.tasks[t].status # "absent" THEN Emit(s, <<"throw", "Task already exists">>)
  ELSE LET s1 == Emit([s EXCEPT !.tasks[t] = StoredTask(deps, pref, status),
                                !.taskOrder = Append(@, t)],
                      <<"taskAdded", t>>)
       IN IF s1.running THEN scheduleNext(s1) ELSE s1

registerAgent(s, a) ==
  IF s.agents[a].status # "unreg" THEN s
  ELSE [s EXCEPT !.agents[a] = [status |-> "idle", currentTask |-> None,
                                inactive |-> FALSE, run |-> 0],
                 !.agentOrder = Append(@, a)]

updateTaskStatus(s, t, st) ==
  IF s.tasks[t].status = "absent" THEN s ELSE [s EXCEPT !.tasks[t].status = st]

\* The dependency list of a task followed without the graph.has(dep) test.
graphDeps_KeepsAbsent(s, t, ord) ==
  SelectSeq(ord, LAMBDA d : d \in s.tasks[t].deps)

\* getTopologicalOrder: a depth-first visit of every task of the table, the
\* dependencies of a task taken in the order ord lists them.  st holds the
\* visited set, the result so far and the id of the error thrown, if any.
graphDeps(s, t, ord) ==
  SelectSeq(ord, LAMBDA d : d \in s.tasks[t].deps /\ s.tasks[d].status # "absent")

\* The revisit test with every finished task taken for an ancestor.
Revisited_AnySeen(st, t, anc) == t \in anc \cup st.visited

\* ancestors.has(taskId)
Revisited(st, t, anc) == t \in anc

RECURSIVE visit(_, _, _, _, _)
RECURSIVE VisitEach(_, _, _, _, _)
visit(s, st, t, anc, ord) ==
  IF st.err # None THEN st
  ELSE IF Revisited(st, t, anc) THEN [st EXCEPT !.err = t]
  ELSE IF t \in st.visited THEN st
  ELSE LET st1 == VisitEach(s, st, graphDeps(s, t, ord), anc \cup {t}, ord)
       IN IF st1.err # None THEN st1
          ELSE [st1 EXCEPT !.visited = @ \cup {t}, !.result = Append(@, t)]

VisitEach(s, st, ts, anc, ord) ==
  IF ts = <<>> THEN st
  ELSE VisitEach(s, visit(s, st, Head(ts), anc, ord), Tail(ts), anc, ord)

getTopologicalOrder(s, ord) ==
  LET st == VisitEach(s, [visited |-> {}, result |-> <<>>, err |-> None],
                      s.taskOrder, {}, ord)
  IN [err |-> st.err, result |-> IF st.err = None THEN st.result ELSE <<>>]

\* ------------------------------------------------------------------ steps
\* What the fields nothing reads any more are set to, so that states which
\* differ only there are one state: lastActivity is read for running agents
\* only and rewritten by every start.
Norm(s) ==
  [s EXCEPT
     !.agents = [a \in AgentIds |->
                   IF s.agents[a].status = "running" THEN s.agents[a]
                   ELSE [s.agents[a] EXCEPT !.inactive = FALSE]]]

\* A run nothing refers to any more: its process has closed, its consumer
\* loop has ended and no agent's currentTask was set by it.
Retired(s, r) ==
  /\ s.runs[r].proc = "closed"
  /\ s.runs[r].consumer = "done"
  /\ \A a \in AgentIds : s.agents[a].run # r

\* The state a macrotask starts in: the macrotask that created a run has
\* ended, and the slots of retired runs are free.
Settled(s) ==
  [s EXCEPT !.runs = [r \in Slots |->
                        IF Retired(s, r) THEN FreeRun
                        ELSE [s.runs[r] EXCEPT !.fresh = FALSE]]]

\* The handlers' result becomes the scheduler's state.
InstallSched(s0) ==
  LET s == Norm(s0) IN
  /\ ~s.overflow
  /\ taskQueueSize' = s.qsize
  /\ running' = s.running
  /\ maxConcurrentAgents' = s.maxc
  /\ taskOrder' = s.taskOrder
  /\ tasks' = s.tasks
  /\ agentOrder' = s.agentOrder
  /\ agents' = s.agents
  /\ spawners' = s.spawners
  /\ runs' = s.runs

Install(s0) ==
  /\ InstallSched(s0)
  /\ UNCHANGED <<git, dirs, stream, topo>>

\* ------------------------------------------------------------ GitManager
\* A working tree is the two-letter status code of each of its paths
\* ("clean" for a path git status does not list).  Text that leaves ASCII
\* is a sequence of characters, FullwidthColon standing for U+FF1A.
Files == <<"a.txt", "b.txt">>
FileSet == {Files[i] : i \in 1..Len(Files)}
UnmergedCodes == {"DD", "AU", "UD", "UA", "DU", "AA", "UU"}
StagedCodes == {"M ", "A ", "D "}
TreeCodes == {"clean", " M", "??", "MM"} \cup StagedCodes \cup UnmergedCodes
FullwidthColon == "U+FF1A"

GitInit ==
  [tree |-> [f \in FileSet |-> "clean"], commits |-> <<>>, cmds |-> <<>>,
   ret |-> [kind |-> "none"]]

\* stdout of `git status --porcelain`: one line per listed path.
StatusStdout(tree) ==
  LET listed == SelectSeq(Files, LAMBDA f : tree[f] # "clean")
  IN [i \in 1..Len(listed) |-> tree[listed[i]] \o " " \o listed[i]]

RECURSIVE TrimLeft(_)
TrimLeft(l) ==
  IF Len(l) > 0 /\ SubSeq(l, 1, 1) = " " THEN TrimLeft(SubSeq(l, 2, Len(l))) ELSE l

\* execGit returns stdout.trim(): the first line loses its leading blanks
\* (no line ends in a blank).
execGitStatus(tree) ==
  LET out == StatusStdout(tree)
  IN IF out = <<>> THEN <<>> ELSE <<TrimLeft(Head(out))>> \o Tail(out)

\* What `git add` makes of a path's code.
StageCode(c) ==
  IF c = "clean" THEN c
  ELSE IF c \in {"??", "A ", "AA", "AU", "UA"} THEN "A "
  ELSE IF c \in {"DD", "UD", "DU", "D "} THEN "D "
  ELSE "M "

gitAdd(tree, files) == [f \in FileSet |-> IF f \in files THEN StageCode(tree[f]) ELSE tree[f]]

\* `git commit` records the staged part; it fails with nothing staged or
\* with unmerged paths.
CanCommit(tree) ==
  /\ \E f \in FileSet : tree[f] \in StagedCodes \cup {"MM"}
  /\ \A f \in FileSet : tree[f] \notin UnmergedCodes

gitCommit(tree) ==
  [f \in FileSet |-> IF tree[f] \in StagedCodes THEN "clean"
                     ELSE IF tree[f] = "MM" THEN " M" ELSE tree[f]]

\* The message with an ASCII colon.
CommitMessage_AsciiColon(module, agentId, description) ==
  <<"[">> \o module \o <<"]", "-", "[">> \o agentId \o <<"]", ":">> \o description

\* `[${module}]-[${agentId}]：${description}`
CommitMessage(module, agentId, description) ==
  <<"[">> \o module \o <<"]", "-", "[">> \o agentId \o <<"]", FullwidthColon>> \o description

\* autoCommit that does not look at the status first.
autoCommit_NoStatusCheck(g, module, agentId, description, files) ==
  LET t1 == gitAdd(g.tree, IF files # {} THEN files ELSE FileSet)
      message == CommitMessage(module, agentId, description)
  IN IF CanCommit(t1)
       THEN [tree |-> gitCommit(t1), commits |-> Append(g.commits, message),
             cmds |-> <<"status", "add", "commit">>,
             ret |-> [kind |-> "commit", message |-> message]]
       ELSE [g EXCEPT !.tree = t1, !.cmds = <<"status", "add", "commit">>,
                      !.ret = [kind |-> "throw"]]

\* files is the set of the paths given ({} when the argument is left out or
\* empty); cmds are the git commands the call ran.
autoCommit(g, module, agentId, description, files) ==
  IF execGitStatus(g.tree) = <<>>
    THEN [g EXCEPT !.cmds = <<"status">>, !.ret = [kind |-> "null"]]
  ELSE
    LET t1 == gitAdd(g.tree, IF files # {} THEN files ELSE FileSet)
        message == CommitMessage(module, agentId, description)
    IN IF CanCommit(t1)
         THEN [tree |-> gitCommit(t1), commits |-> Append(g.commits, message),
               cmds |-> <<"status", "add", "commit">>,
               ret |-> [kind |-> "commit", message |-> message]]
         ELSE [g EXCEPT !.tree = t1, !.cmds = <<"status", "add", "commit">>,
                        !.ret = [kind |-> "throw"]]

\* A classification that exchanges the two deletion cases.
ConflictType_Swapped(code) ==
  IF code = "UU" THEN "both_modified"
  ELSE IF code = "UD" THEN "deleted_by_us"
  ELSE IF code = "DU" THEN "deleted_by_them"
  ELSE IF code = "AA" THEN "both_added"
  ELSE None

\* The type detectConflicts gives a two-letter code, None for no entry.
ConflictType(code) ==
  IF code = "UU" THEN "both_modified"
  ELSE IF code = "UD" THEN "deleted_by_them"
  ELSE IF code = "DU" THEN "deleted_by_us"
  ELSE IF code = "AA" THEN "both_added"
  ELSE None

LineCode(line) == SubSeq(line, 1, 2)
LineFile(line) == SubSeq(line, 4, Len(line))

\* detectConflicts on the lines execGit returned; a failing status command
\* (statusOk false) is swallowed and gives no conflicts.
detectConflicts(lines, statusOk) ==
  IF ~statusOk THEN <<>>
  ELSE LET hits == SelectSeq(lines, LAMBDA l : ConflictType(LineCode(l)) # None)
       IN [i \in 1..Len(hits) |->
             [file |-> LineFile(hits[i]), type |-> ConflictType(LineCode(hits[i]))]]

\* mergeBranch: mergeOk says whether `git merge` succeeded, after which the
\* working tree is g.tree.
mergeBranch(g, mergeOk, statusOk) ==
  IF mergeOk
    THEN [g EXCEPT !.cmds = <<"merge">>, !.ret = [kind |-> "success"]]
  ELSE LET conflicts == detectConflicts(execGitStatus(g.tree), statusOk)
       IN [g EXCEPT !.cmds = <<"merge", "status">>,
                    !.ret = IF Len(conflicts) > 0
                              THEN [kind |-> "conflict", conflicts |-> conflicts]
                              ELSE [kind |-> "throw"]]

\* --------------------------------------------------- working directories
Dirs == {"/repo", "/repo/agents/worktrees/m1"}
DirsInit == [task |-> [t \in TaskIds |-> None], agent |-> [a \in AgentIds |-> None]]

\* cwd: task.worktreePath || agent.config.workdir; with neither the child
\* inherits the scheduler's own directory.
Cwd(d, t, a) ==
  IF d.task[t] # None THEN d.task[t]
  ELSE IF d.agent[a] # None THEN d.agent[a]
  ELSE "process.cwd()"

\* ------------------------------------------- CliSpawner.spawn as a stream
\* One CliSpawner used on its own, with a consumer that may pull at any pace:
\*   spawned    spawn() has run its body up to the loop (this.process is set)
\*   proc       none | live | failing (the process could not be started and
\*              the 'error' callback has not run yet) | errored | closed
\*   buffer     this.buffer holds a non-blank partial line
\*   queue      eventQueue;  done: the flag of that name
\*   consumer   unstarted | holding (an event was yielded, next() not yet
\*              called again) | parked (awaiting the promise, resolveNext
\*              set) | woken (promise resolved, continuation not yet run) |
\*              ended (the generator returned)
\*   timer      timeoutId is armed;  aborted: the flag of that name
\*   signals, killTimers, abortEvents   SIGTERMs sent, SIGKILL timers
\*              armed, 'abort' notifications emitted, so far
\*   abortCalls abort() calls made from outside so far
\*   pushed, yielded   every event pushed to eventQueue, and every event the
\*              consumer received, in order; an event is <<type, n>> or
\*              <<"exit", n, code>>, n being its rank among the pushed
\*   logs       the lines handleAgentEvent appended for the yielded events
StreamInit ==
  [spawned |-> FALSE, proc |-> "none", buffer |-> FALSE, queue |-> <<>>,
   done |-> FALSE, consumer |-> "unstarted", timer |-> FALSE, aborted |-> FALSE,
   signals |-> 0, killTimers |-> 0, abortEvents |-> 0, abortCalls |-> 0,
   pushed |-> <<>>, yielded |-> <<>>, logs |-> <<>>]

\* eventQueue.push(event) of an event of the given type.
PushEvent(st, type) ==
  LET e == <<type, Len(st.pushed) + 1>>
  IN [st EXCEPT !.queue = Append(@, e), !.pushed = Append(@, e)]

PushExit(st, code) ==
  LET e == <<"exit", Len(st.pushed) + 1, code>>
  IN [st EXCEPT !.queue = Append(@, e), !.pushed = Append(@, e)]

RECURSIVE PushLines(_, _)
PushLines(st, n) == IF n = 0 THEN st ELSE PushLines(PushEvent(st, "stdout"), n - 1)

\* resolveNext?.()
resolveNext(st) == IF st.consumer = "parked" THEN [st EXCEPT !.consumer = "woken"] ELSE st

\* CliSpawner.cleanup
StreamCleanup(st) == [st EXCEPT !.timer = FALSE]

\* A loop taking the last queued event.
Shifted_Pop(q) == [event |-> q[Len(q)], rest |-> SubSeq(q, 1, Len(q) - 1)]

\* The event the loop takes from eventQueue: shift() takes the first.
Shifted(q) == [event |-> Head(q), rest |-> Tail(q)]

\* The while loop of spawn, from its test to the next yield, await or return;
\* the consumer's for-await body (handleAgentEvent) runs on the yielded event.
SpawnLoop(st) ==
  IF st.queue # <<>>
    THEN LET sh == Shifted(st.queue)
         IN [st EXCEPT !.queue = sh.rest,
                       !.yielded = Append(@, sh.event),
                       !.logs = Append(@, EventLine(sh.event)),
                       !.consumer = "holding"]
  ELSE IF ~st.done THEN [st EXCEPT !.consumer = "parked"]
  ELSE [st EXCEPT !.consumer = "ended"]

\* spawn() up to its loop: the process is created and the timer armed.
SpawnBody(st, starts) ==
  [st EXCEPT !.spawned = TRUE, !.proc = IF starts THEN "live" ELSE "failing",
             !.timer = TRUE]

\* The stdout 'data' callback on a chunk completing n non-blank lines and
\* leaving a partial line (rest) or none.
onStdout(st, n, rest) ==
  LET st1 == PushLines(st, n)
  IN [(IF n > 0 THEN resolveNext(st1) ELSE st1) EXCEPT !.buffer = rest]

\* A stderr callback that queues its event and wakes nobody.
onStderr_NoWake(st) == PushEvent(st, "stderr")

onStderr(st) == resolveNext(PushEvent(st, "stderr"))

onClose(st, code) ==
  LET st1 == [st EXCEPT !.done = TRUE, !.proc = "closed"]
      st2 == IF st.buffer THEN PushEvent(st1, "final") ELSE st1
  IN StreamCleanup(resolveNext(PushExit(st2, code)))

onError(st) ==
  StreamCleanup(resolveNext(PushEvent([st EXCEPT !.done = TRUE, !.proc = "errored"], "error")))

\* CliSpawner.abort without its guard on this.aborted.
CliSpawnerAbort_Unguarded(st) ==
  StreamCleanup([st EXCEPT !.aborted = TRUE,
                           !.signals = IF st.spawned THEN @ + 1 ELSE @,
                           !.killTimers = @ + 1,
                           !.abortEvents = @ + 1])

\* CliSpawner.abort; process?.kill is a call only once spawn() has set
\* this.process.
CliSpawnerAbort(st) ==
  IF st.aborted THEN st
  ELSE StreamCleanup([st EXCEPT !.aborted = TRUE,
                                !.signals = IF st.spawned THEN @ + 1 ELSE @,
                                !.killTimers = @ + 1,
                                !.abortEvents = @ + 1])

\* The scheduler as its constructor leaves it, for a given taskQueueSize.
Constructed(qsize) ==
  /\ taskQueueSize = qsize
  /\ running = FALSE
  /\ maxConcurrentAgents = MaxConc
  /\ taskOrder = <<>>
  /\ tasks = [t \in TaskIds |-> AbsentTask]
  /\ agentOrder = <<>>
  /\ agents = [a \in AgentIds |-> UnregAgent]
  /\ spawners = [a \in AgentIds |-> 0]
  /\ runs = [r \in Slots |-> FreeRun]
  /\ git = GitInit
  /\ dirs = DirsInit
  /\ stream = StreamInit
  /\ topo = [err |-> None, result |-> <<>>]

Init == Constructed(TaskQueueSize)

InitBatch == Constructed(BatchQueueSize)

\* Ids are interchangeable, so tasks and agents are introduced in the order
\* of their ids; a dependency may name a task that is not (yet) in the table.
IdOrder(x) == CHOOSE n \in 1..9 : x \in {"T" \o ToString(n), "A" \o ToString(n)}

\* The status field a caller may pass to addTask (TaskStatus).
TaskStatuses == {"pending", "in_progress", "completed", "failed"}

AddTask ==
  \E t \in TaskIds : \E deps \in SUBSET (TaskIds \ {t}) : \E status \in TaskStatuses :
    /\ \A u \in TaskIds : IdOrder(u) < IdOrder(t) => tasks[u].status # "absent"
    /\ Install(addTask(Settled(Cur), t, deps, None, status))

\* addTask of a task whose assignedAgent names a preferred agent.
AddTaskPreferring ==
  \E t \in TaskIds : \E deps \in SUBSET (TaskIds \ {t}) : \E pref \in AgentIds :
    /\ \A u \in TaskIds : IdOrder(u) < IdOrder(t) => tasks[u].status # "absent"
    /\ Install(addTask(Settled(Cur), t, deps, pref, "pending"))

RegisterAgent ==
  \E a \in AgentIds :
    /\ agents[a].status = "unreg"
    /\ \A b \in AgentIds : IdOrder(b) < IdOrder(a) => agents[b].status # "unreg"
    /\ Install(registerAgent(Settled(Cur), a))

\* start() on a running scheduler returns at once.
Start ==
  /\ ~running
  /\ Install(start(Settled(Cur)))

\* stop() on a stopped scheduler changes nothing.
Stop ==
  /\ running
  /\ Install(stop(Settled(Cur)))

\* shutdown() up to the resolution of its promise: the stopAgent promises it
\* awaits resolve without waiting for anything.
Shutdown ==
  /\ running \/ getRunningAgents(Cur) # <<>>
  /\ Install(shutdown(Settled(Cur)))

\* Setting the bound to the value it has changes nothing.
SetMaxConcurrentAgents ==
  \E n \in 0..MaxConc :
    /\ n # maxConcurrentAgents
    /\ Install(setMaxConcurrentAgents(Settled(Cur), n))

StartAgent ==
  \E a \in AgentIds, t \in TaskIds :
    /\ tasks[t].status # "absent"
    /\ Install(startAgent(Settled(Cur), a, t))

StopAgent ==
  \E a \in AgentIds :
    /\ agents[a].status # "unreg"
    /\ Install(stopAgent(Settled(Cur), a, "manual stop"))

\* The setInterval callback of startHealthCheck; the timer exists between
\* start() and stop().
HealthCheck ==
  /\ running
  /\ Unhealthy(Cur) # <<>>
  /\ Install(performHealthCheck(Settled(Cur)))

\* The setTimeout callback of CliSpawner.spawn: config.timeout has passed
\* since the spawn and nothing cleared the timer.
SpawnTimeout ==
  \E r \in Slots :
    /\ runs[r].timer
    /\ Install(abort(Settled(Cur), r, "Timeout exceeded"))

\* Time passes: more than config.timeout since agent a's lastActivity.  That
\* is later than the timeout of the run that set its currentTask, whose
\* timer has therefore fired or been cleared.
Elapse ==
  \E a \in AgentIds :
    /\ agents[a].status = "running"
    /\ ~agents[a].inactive
    /\ ~runs[agents[a].run].timer
    /\ Install([Settled(Cur) EXCEPT !.agents[a].inactive = TRUE])

\* stdout or stderr data: one event is queued and the consumer takes it.
ProcOutput ==
  \E r \in Slots :
    /\ runs[r].proc \in {"live", "termed"}
    /\ runs[r].consumer = "waiting"
    /\ Install(ConsumeEvent(Settled(Cur), r, <<"stdout">>))

\* The 'close' callback: the exit event is queued, the consumer takes it and
\* the stream ends.  A process that was sent SIGTERM may end by the signal
\* (code null) or by its own handler; one that was not ends with its own code.
ProcClose ==
  \E r \in Slots, code \in ExitCodes :
    /\ runs[r].proc \in {"live", "termed"}
    /\ runs[r].consumer = "waiting"
    /\ code \in (IF runs[r].proc = "termed" THEN {"0", "null"} ELSE {"0", "1"})
    /\ LET s == cleanup([Settled(Cur) EXCEPT !.runs[r].proc = "closed", !.runs[r].code = code], r) IN
       Install(EndOfStream(ConsumeEvent(s, r, <<"exit", code>>), r))

\* The process could not be started: the 'error' callback runs, the consumer
\* takes the error event, finds the stream done and returns; the exit event
\* the later 'close' callback queues is read by nobody.
ProcErrorThenDrain ==
  \E r \in Slots :
    /\ runs[r].fresh
    /\ runs[r].proc = "live"
    /\ LET s == cleanup([Cur EXCEPT !.runs[r].proc = "errored"], r) IN
       Install(EndOfStream(ConsumeEvent(s, r, <<"error">>), r))

\* The same failure with 'close' called back before the consumer resumes:
\* the consumer takes the error event and then the exit event.
ProcErrorAndClose ==
  \E r \in Slots :
    /\ runs[r].fresh
    /\ runs[r].proc = "live"
    /\ LET s == cleanup([Cur EXCEPT !.runs[r].proc = "closed",
                                    !.runs[r].code = SpawnErrorCode], r) IN
       Install(EndOfStream(ConsumeAll(s, r, << <<"error">>, <<"exit", SpawnErrorCode>> >>), r))

\* The 'close' callback of a process whose stream has already ended.
ProcCloseLate ==
  \E r \in Slots :
    /\ runs[r].proc = "errored"
    /\ Install(cleanup([Settled(Cur) EXCEPT !.runs[r].proc = "closed",
                                            !.runs[r].code = SpawnErrorCode], r))

UpdateTaskStatus ==
  \E t \in TaskIds, st \in {"pending", "in_progress", "completed", "failed"} :
    /\ tasks[t].status # "absent"
    /\ Install(updateTaskStatus(Settled(Cur), t, st))

\* The orders in which a dependency list may name the task ids.
DepOrders ==
  {ord \in [1..Cardinality(TaskIds) -> TaskIds] :
     \A i, j \in 1..Cardinality(TaskIds) : i # j => ord[i] # ord[j]}

\* addTask with any dependency list, the task itself included.
AddTaskAnyDeps ==
  \E t \in TaskIds : \E deps \in SUBSET TaskIds :
    /\ \A u \in TaskIds : IdOrder(u) < IdOrder(t) => tasks[u].status # "absent"
    /\ tasks[t].status = "absent"
    /\ Len(taskOrder) < taskQueueSize
    /\ Install(addTask(Settled(Cur), t, deps, None, "pending"))

\* A caller asks for the topological order.
GetTopologicalOrder ==
  \E ord \in DepOrders :
    /\ topo' = getTopologicalOrder(Cur, ord)
    /\ UNCHANGED <<taskQueueSize, running, maxConcurrentAgents, taskOrder, tasks,
                   agentOrder, agents, spawners, runs, git, dirs, stream>>

\* ------------------------------------------------ the stream's steps
sched == <<taskQueueSize, running, maxConcurrentAgents, taskOrder, tasks, agentOrder,
           agents, spawners, runs>>

schedVars == <<sched, git, dirs, topo>>

\* The consumer's first next(): spawn() runs to its first await.
SpawnCall ==
  \E starts \in BOOLEAN :
    /\ stream.consumer = "unstarted"
    /\ stream' = SpawnLoop(SpawnBody(stream, starts))
    /\ UNCHANGED schedVars

StdoutData ==
  \E n \in 0..MaxLines, rest \in BOOLEAN :
    /\ stream.proc = "live"
    /\ Len(stream.pushed) + n <= MaxPushed
    /\ stream' = onStdout(stream, n, rest)
    /\ UNCHANGED schedVars

StderrData ==
  /\ stream.proc = "live"
  /\ Len(stream.pushed) < MaxPushed
  /\ stream' = onStderr(stream)
  /\ UNCHANGED schedVars

\* The 'close' callback: of a process that ran, with its exit code (null
\* when a signal killed it), or of one that never started.
CloseCallback ==
  \E code \in ExitCodes \cup {SpawnErrorCode} :
    /\ stream.proc \in {"live", "errored"}
    /\ code = SpawnErrorCode <=> stream.proc = "errored"
    /\ stream' = onClose(stream, code)
    /\ UNCHANGED schedVars

ErrorCallback ==
  /\ stream.proc = "failing"
  /\ stream' = onError(stream)
  /\ UNCHANGED schedVars

\* The continuation of the await in spawn's loop.
ConsumerResume ==
  /\ stream.consumer = "woken"
  /\ stream' = SpawnLoop(stream)
  /\ UNCHANGED schedVars

\* The consumer asks for the next event.
ConsumerPull ==
  /\ stream.consumer = "holding"
  /\ stream' = SpawnLoop(stream)
  /\ UNCHANGED schedVars

\* abort() called from outside, at any time, MaxAborts times at most.
AbortCall ==
  /\ stream.abortCalls < MaxAborts
  /\ stream' = [CliSpawnerAbort(stream) EXCEPT !.abortCalls = @ + 1]
  /\ UNCHANGED schedVars

\* The setTimeout callback of spawn: this.abort('Timeout exceeded').
TimeoutFires ==
  /\ stream.timer
  /\ stream' = CliSpawnerAbort([stream EXCEPT !.timer = FALSE])
  /\ UNCHANGED schedVars

\* ------------------------------------------------ the working tree's steps
\* Arguments given to autoCommit: module, agentId and description as
\* character sequences.
Modules == {<<"u", "i">>, <<"]", "-", "[">>}
AgentNames == {<<"A", "1">>}
Descriptions == {<<>>, <<"f", "i", "x", FullwidthColon>>}

\* Somebody (an agent, a merge, the user) changes the state of a path.  ret
\* and cmds describe the call made in the last step only.
EditTree ==
  \E f \in FileSet, c \in TreeCodes :
    /\ git.tree[f] # c
    /\ git' = [git EXCEPT !.tree[f] = c, !.cmds = <<>>, !.ret = [kind |-> "none"]]
    /\ UNCHANGED <<sched, dirs, stream, topo>>

AutoCommit ==
  \E m \in Modules, a \in AgentNames, d \in Descriptions, files \in SUBSET FileSet :
    /\ Len(git.commits) < MaxCommits
    /\ git' = autoCommit(git, m, a, d, files)
    /\ UNCHANGED <<sched, dirs, stream, topo>>

\* mergeBranch after `git merge` has left the working tree as it is now.
MergeBranch ==
  \E mergeOk \in BOOLEAN, statusOk \in BOOLEAN :
    /\ mergeOk => \A f \in FileSet : git.tree[f] \notin UnmergedCodes
    /\ git' = mergeBranch(git, mergeOk, statusOk)
    /\ UNCHANGED <<sched, dirs, stream, topo>>

DetectConflicts ==
  \E statusOk \in BOOLEAN :
    /\ git' = [git EXCEPT !.cmds = <<"status">>,
                          !.ret = [kind |-> "conflicts",
                                   conflicts |-> detectConflicts(execGitStatus(git.tree), statusOk)]]
    /\ UNCHANGED <<sched, dirs, stream, topo>>

\* addTask of a task that carries a worktreePath, or none.
AddTaskIn ==
  \E t \in TaskIds, dir \in Dirs \cup {None} :
    /\ \A u \in TaskIds : IdOrder(u) < IdOrder(t) => tasks[u].status # "absent"
    /\ tasks[t].status = "absent"
    /\ Len(taskOrder) < taskQueueSize
    /\ InstallSched(addTask(Settled(Cur), t, {}, None, "pending"))
    /\ dirs' = [dirs EXCEPT !.task[t] = dir]
    /\ UNCHANGED <<git, stream, topo>>

\* registerAgent of a configuration that carries a workdir, or none.
RegisterAgentIn ==
  \E a \in AgentIds, dir \in Dirs \cup {None} :
    /\ agents[a].status = "unreg"
    /\ \A b \in AgentIds : IdOrder(b) < IdOrder(a) => agents[b].status # "unreg"
    /\ InstallSched(registerAgent(Settled(Cur), a))
    /\ dirs' = [dirs EXCEPT !.agent[a] = dir]
    /\ UNCHANGED <<git, stream, topo>>

\* ---------------------------------------------------------- specifications
\* The scheduler with processes that start, write output and exit.
Next ==
  \/ AddTask
  \/ RegisterAgent
  \/ Start
  \/ Stop
  \/ Shutdown
  \/ SetMaxConcurrentAgents
  \/ StopAgent
  \/ ProcOutput
  \/ ProcClose

Spec == Init /\ [][Next]_vars

\* The scheduler under the clock: run timeouts and health checks.
NextHealth ==
  \/ AddTask
  \/ RegisterAgent
  \/ Start
  \/ Stop
  \/ Shutdown
  \/ SpawnTimeout
  \/ Elapse
  \/ HealthCheck
  \/ ProcClose

SpecHealth == Init /\ [][NextHealth]_vars

\* A batch of three tasks worked off by the scheduling passes alone.
NextBatch ==
  \/ AddTask
  \/ RegisterAgent
  \/ Start
  \/ SetMaxConcurrentAgents
  \/ ProcClose

SpecBatch == InitBatch /\ [][NextBatch]_vars

\* The scheduler with callers that start agents themselves.
NextApi ==
  \/ AddTask
  \/ RegisterAgent
  \/ Start
  \/ SetMaxConcurrentAgents
  \/ StartAgent
  \/ ProcClose

SpecApi == Init /\ [][NextApi]_vars

\* The scheduler with callers that set task statuses themselves.
NextStatus ==
  \/ AddTask
  \/ RegisterAgent
  \/ Start
  \/ SetMaxConcurrentAgents
  \/ UpdateTaskStatus
  \/ ProcClose

SpecStatus == Init /\ [][NextStatus]_vars

\* The scheduler with processes that may fail to start.
NextSpawn ==
  \/ Next
  \/ ProcErrorThenDrain
  \/ ProcErrorAndClose
  \/ ProcCloseLate

SpecSpawn == Init /\ [][NextSpawn]_vars

\* Task tables with any dependency graph, and callers of getTopologicalOrder.
\* Tasks with and without a preferred agent.
NextPref ==
  \/ AddTask
  \/ AddTaskPreferring
  \/ RegisterAgent
  \/ Start
  \/ StopAgent
  \/ ProcClose

SpecPref == Init /\ [][NextPref]_vars

\* The scheduler with its callers free to call or not, and what the runtime
\* guarantees to happen: a child process ends (by itself, or killed when the
\* run's timeout fires) and Node then delivers its 'close' callback.  The
\* scheduler itself arms no timer that runs scheduleNext: start() arms the
\* health check and the log sync only.
NextLive ==
  \/ AddTask
  \/ RegisterAgent
  \/ Start
  \/ SetMaxConcurrentAgents
  \/ ProcClose

SpecLive == Init /\ [][NextLive]_vars /\ WF_vars(ProcClose)

\* Runs that end by themselves or by their timeout: nothing calls stopAgent,
\* so a run is aborted exactly when its timer has fired.
NextTimeout ==
  \/ AddTask
  \/ RegisterAgent
  \/ Start
  \/ SpawnTimeout
  \/ ProcOutput
  \/ ProcClose

SpecTimeout == Init /\ [][NextTimeout]_vars

\* Agents that write output under the clock: an event refreshes the agent's
\* lastActivity, time passing makes it overdue, the health check looks.
NextActivity ==
  \/ AddTask
  \/ RegisterAgent
  \/ Start
  \/ SpawnTimeout
  \/ Elapse
  \/ HealthCheck
  \/ ProcOutput
  \/ ProcClose

SpecActivity == Init /\ [][NextActivity]_vars

\* One CliSpawner, its process and its consumer.
NextStream ==
  \/ SpawnCall
  \/ StdoutData
  \/ StderrData
  \/ CloseCallback
  \/ ErrorCallback
  \/ ConsumerResume
  \/ ConsumerPull
  \/ AbortCall
  \/ TimeoutFires

SpecStream == Init /\ [][NextStream]_vars

\* The consumer's side always goes on: the continuation of a resolved
\* promise is a microtask, and the for-await loop of startAgent asks for the
\* next event as soon as its synchronous body has run.
SpecStreamLive ==
  Init /\ [][NextStream]_vars /\ WF_vars(ConsumerResume) /\ WF_vars(ConsumerPull)

\* One working tree under GitManager.
NextGit ==
  \/ EditTree
  \/ AutoCommit
  \/ MergeBranch
  \/ DetectConflicts

SpecGit == Init /\ [][NextGit]_vars

\* Tasks and agents with their directories.
NextDirs ==
  \/ AddTaskIn
  \/ RegisterAgentIn
  \/ Start
  \/ ProcClose

SpecDirs == Init /\ [][NextDirs]_vars

NextGraph ==
  \/ AddTaskAnyDeps
  \/ GetTopologicalOrder

SpecGraph == InitBatch /\ [][NextGraph]_vars

\* ------------------------------------------------------------- properties
ToSet(seq) == {seq[i] : i \in 1..Len(seq)}

RunningAgents == {a \in AgentIds : agents[a].status = "running"}

\* The step delivers the exit event of run r to its consumer loop.
ExitDelivered(r) ==
  /\ runs[r].consumer = "waiting"
  /\ runs'[r].consumer = "done"
  /\ runs'[r].code # None

\* C1: in every reachable state getReadyTasks() returns, once each, exactly
\* the pending tasks none of whose dependencies is pending, in_progress,
\* failed or absent from the table; a pending task without dependencies is
\* always among them.
C1_ReadyTasks ==
  LET ready == getReadyTasks(Cur) IN
  /\ ToSet(ready) =
       {t \in TaskIds :
          /\ tasks[t].status = "pending"
          /\ \A d \in tasks[t].deps :
               tasks[d].status \notin {"absent", "pending", "in_progress", "failed"}}
  /\ Len(ready) = Cardinality(ToSet(ready))
  /\ \A t \in TaskIds :
       tasks[t].status = "pending" /\ tasks[t].deps = {} => t \in ToSet(ready)

\* A pending task is returned whose dependency is completed.
C1_Witness ==
  \E t \in ToSet(getReadyTasks(Cur)) : tasks[t].deps # {}

\* C2: no step moves a task from pending to in_progress unless every one of
\* its dependencies is completed; a task depending on another stays pending
\* until that one is completed.
C2_DependenciesBeforeStart ==
  [][\A t \in TaskIds :
       tasks[t].status = "pending" /\ tasks'[t].status = "in_progress"
         => \A d \in tasks[t].deps : tasks'[d].status = "completed"]_vars

\* A task with a dependency is in progress, its dependency completed.
C2_Witness ==
  \E t \in TaskIds :
    /\ tasks[t].status = "in_progress"
    /\ tasks[t].deps # {}
    /\ \A d \in tasks[t].deps : tasks[d].status = "completed"

\* C3: every run was started with fewer agents running than the current
\* maxConcurrentAgents; setMaxConcurrentAgents(n) with n < 1 changes nothing
\* and the bound never becomes smaller than 1; unless the bound is lowered
\* below the running count the number of running agents never exceeds it;
\* and a step that lowers the bound stops no running agent.
C3_ConcurrencyBound ==
  /\ [](\A r \in Slots : runs[r].proc # "none" => runs[r].gate)
  /\ [](\A n \in {-1, 0} : setMaxConcurrentAgents(Cur, n) = Cur)
  /\ [](maxConcurrentAgents >= 1)
  /\ [][(/\ Cardinality(RunningAgents) <= maxConcurrentAgents
         /\ maxConcurrentAgents' >= Cardinality(RunningAgents))
          => Cardinality(RunningAgents') <= maxConcurrentAgents']_vars
  /\ [][maxConcurrentAgents' < maxConcurrentAgents
          => RunningAgents \subseteq RunningAgents']_vars

\* Two agents run, each started within the bound, after the bound was
\* lowered to one.
C3_Witness ==
  /\ Cardinality(RunningAgents) > maxConcurrentAgents
  /\ \A a \in RunningAgents : runs[agents[a].run].proc = "live"

\* C4: a task re-queued by a health check is not failed later by the exit of
\* the process that health check aborted.
C4_RequeuedTaskNotFailed ==
  [][\A r \in Slots :
       (/\ ExitDelivered(r)
        /\ runs[r].aborted
        /\ agents[runs[r].agent].run # r
        /\ tasks[runs[r].task].status \in {"pending", "in_progress"})
         => tasks'[runs[r].task].status # "failed"]_vars

\* C5: no execution attempt has more than one terminal event (taskCompleted
\* or taskFailed) emitted for it.
C5_OneTerminalEvent ==
  \A r \in Slots : Len(runs[r].term) <= 1

\* C6: when the exit event of a run is delivered with code c, the task is
\* completed iff c = 0 and failed otherwise, with the error text as the last
\* line of its logs; the agent is idle or already started on another task;
\* and no dependent of the task is left ready while the scheduler is running
\* with an idle agent and a free place under the bound.
C6_ExitMapping ==
  [][\A r \in Slots :
       ExitDelivered(r) =>
         LET t == runs[r].task
             a == runs[r].agent
             c == runs'[r].code
         IN /\ tasks'[t].status = IF c = "0" THEN "completed" ELSE "failed"
            /\ c # "0" => /\ tasks'[t].logs # <<>>
                          /\ tasks'[t].logs[Len(tasks'[t].logs)] = "Error: Agent exited with code " \o c
            /\ \/ agents'[a].status = "idle"
               \/ agents'[a].status = "running" /\ agents'[a].run # r
            /\ \A d \in ToSet(getReadyTasks(Cur')) :
                 t \in tasks'[d].deps =>
                   ~(running' /\ IdleAgents(Cur') # <<>> /\ canStartNewAgent(Cur'))]_vars

\* C7: a step in which an agent with a current task is stopped leaves that
\* task failed, whatever the state of the process.
C7_StoppedTaskFailed ==
  [][\A a \in AgentIds :
       agents[a].currentTask # None /\ agents'[a].status = "aborted"
         => tasks'[agents[a].currentTask].status = "failed"]_vars

\* An agent was stopped while its process had not been sent a signal and is
\* still alive: the task of that run is failed.
C7_Witness ==
  \E r \in Slots :
    /\ runs[r].proc = "live"
    /\ agents[runs[r].agent].status = "aborted"
    /\ runs[r].term = <<"taskFailed">>
    /\ tasks[runs[r].task].status = "failed"

\* C8: a second stopAgent right after the first changes no record, sends no
\* signal and emits no event.
C8_StopAgentIdempotent ==
  \A a \in AgentIds :
    agents[a].status # "unreg" =>
      LET once == [stopAgent(Cur, a, "manual stop") EXCEPT !.ev = {}]
      IN stopAgent(once, a, "manual stop") = once

\* C9: when shutdown returns no process started by the scheduler is alive.
C9_ShutdownWaitsForExit ==
  [][Shutdown => \A r \in Slots : runs'[r].proc \in {"none", "closed"}]_vars

\* C10: when shutdown returns no task is in_progress and no agent is
\* running, and while the scheduler is stopped no step starts a run.
C10_ShutdownLeavesNothingRunning ==
  /\ [][Shutdown => /\ \A t \in TaskIds : tasks'[t].status # "in_progress"
                    /\ RunningAgents' = {}]_vars
  /\ [][~running /\ ~running' =>
          \A r \in Slots : runs'[r].proc = "live" => runs[r].proc = "live"]_vars

\* C11: in every reachable state a task in the table has an assignedAgent
\* if and only if its status is in_progress.
C11_AssignedIffInProgress ==
  \A t \in TaskIds :
    tasks[t].status # "absent" =>
      (tasks[t].assignedAgent # None <=> tasks[t].status = "in_progress")

\* C12: in every reachable state each agent has at most one task that is
\* in_progress and assigned to it, and at most one run whose event stream
\* is still being consumed.
C12_OneTaskPerAgent ==
  \A a \in AgentIds :
    /\ Cardinality({t \in TaskIds : tasks[t].status = "in_progress"
                                      /\ tasks[t].assignedAgent = a}) <= 1
    /\ Cardinality({r \in Slots : runs[r].agent = a
                                    /\ runs[r].consumer = "waiting"}) <= 1

\* d is a dependency of t and both are in the table.
DependsOn(t, d) ==
  /\ tasks[t].status # "absent"
  /\ tasks[d].status # "absent"
  /\ d \in tasks[t].deps

\* t lies on a cycle of the dependency graph of the table.
OnCycle(t) ==
  \E n \in 1..Cardinality(TaskIds) : \E p \in [1..n -> TaskIds] :
    /\ p[1] = t
    /\ \A i \in 1..(n - 1) : DependsOn(p[i], p[i + 1])
    /\ DependsOn(p[n], t)

\* The outcome res of getTopologicalOrder is an error exactly when the graph
\* has a cycle, and the error names a task on a cycle.
TopoOutcomeRight(res) ==
  /\ res.err # None <=> \E t \in TaskIds : OnCycle(t)
  /\ res.err # None => OnCycle(res.err)

\* C13: getTopologicalOrder() returns or fails for every task table, fails
\* exactly when the dependency graph of the table has a cycle (a
\* self-dependency included), and then names a task that lies on a cycle.
C13_CycleDetection ==
  /\ [](\A ord \in DepOrders : TopoOutcomeRight(getTopologicalOrder(Cur, ord)))
  /\ [][topo' # topo => TopoOutcomeRight(topo')]_vars

\* A call failed on a cycle through two tasks, with a task outside the cycle
\* in the table.
C13_Witness ==
  /\ topo.err # None
  /\ topo.err \notin tasks[topo.err].deps
  /\ OnCycle(topo.err)
  /\ \E t \in TaskIds : tasks[t].status # "absent" /\ ~OnCycle(t)

\* ---------------------------------------------------------------------
\* C14: addTask fails exactly when the table already holds taskQueueSize
\* tasks or already contains the id; a failed addTask changes nothing (the
\* table, every stored record), emits no taskAdded and starts nothing; a
\* successful one stores the task as pending whatever status was supplied
\* (the pass it triggers may then start it); the table never holds more than
\* taskQueueSize tasks and never the same id twice.
AddTaskFails(t) == Len(taskOrder) >= taskQueueSize \/ tasks[t].status # "absent"

Thrown(s) == {e \in s.ev : e[1] = "throw"}

AddTaskOutcomeRight(t, deps, status) ==
  LET res == addTask(Cur, t, deps, None, status)
  IN IF AddTaskFails(t)
     THEN /\ [res EXCEPT !.ev = Cur.ev] = Cur
          /\ Thrown(res) # {}
          /\ res.ev \ Thrown(res) = {}
     ELSE /\ Thrown(res) = {}
          /\ <<"taskAdded", t>> \in res.ev
          /\ res.taskOrder = Append(taskOrder, t)
          /\ res.tasks[t].deps = deps
          /\ res.tasks[t].status \in {"pending", "in_progress"}
          /\ res.tasks[t].status = "in_progress" =>
               /\ running
               /\ \E a \in AgentIds : <<"agentStarted", a>> \in res.ev
          /\ \A u \in TaskIds \ {t} :
               res.tasks[u].status = "absent" <=> tasks[u].status = "absent"

TaskTableRight ==
  /\ Len(taskOrder) <= taskQueueSize
  /\ \A i, j \in 1..Len(taskOrder) : taskOrder[i] = taskOrder[j] => i = j
  /\ ToSet(taskOrder) = {t \in TaskIds : tasks[t].status # "absent"}

C14_AddTaskErrors ==
  /\ TaskTableRight
  /\ \A t \in TaskIds : \A deps \in SUBSET (TaskIds \ {t}) : \A status \in TaskStatuses :
       AddTaskOutcomeRight(t, deps, status)

\* The table is full with one id still outside it (a queue-full refusal) and
\* holds a task that was added while the scheduler ran and was started by
\* the pass of its addTask.
C14_Witness ==
  /\ Len(taskOrder) = taskQueueSize
  /\ \E t \in TaskIds : tasks[t].status = "absent"
  /\ \E t \in TaskIds : tasks[t].status = "in_progress"

\* ---------------------------------------------------------------------
\* C15: a pending task whose assignedAgent names a preferred agent is started
\* by a scheduling pass only on that agent and only when that agent is idle;
\* when the preferred agent is not idle the pass leaves the task pending and
\* gives it to no other idle agent.
Prefers(s, t) == s.tasks[t].status = "pending" /\ s.tasks[t].assignedAgent # None

\* The loop of a scheduling pass run on the state s.
Pass(s) == ScheduleLoop(s, getReadyTasks(s), IdleAgents(s))

PassHonoursPreference(s) ==
  LET res == Pass(s) IN
  \A t \in TaskIds : Prefers(s, t) =>
    LET p == s.tasks[t].assignedAgent IN
    /\ res.tasks[t].status \in {"pending", "in_progress"}
    /\ res.tasks[t].assignedAgent = p
    /\ res.tasks[t].status = "in_progress" =>
         /\ s.agents[p].status = "idle"
         /\ res.agents[p].status = "running"
         /\ res.agents[p].currentTask = t
    /\ s.agents[p].status # "idle" => res.tasks[t] = s.tasks[t]
    /\ \A q \in AgentIds \ {p} :
         res.agents[q].currentTask = t => s.agents[q].currentTask = t

StartedOnPreferred ==
  \A t \in TaskIds : Prefers(Cur, t) /\ tasks'[t].status = "in_progress" =>
    LET p == tasks[t].assignedAgent IN
    /\ tasks'[t].assignedAgent = p
    /\ agents'[p].status = "running"
    /\ agents'[p].currentTask = t
    /\ \E r \in Slots : /\ runs'[r].agent = p /\ runs'[r].task = t
                        /\ runs'[r].consumer = "waiting"
    /\ \A q \in AgentIds \ {p} :
         agents'[q].currentTask = t => agents[q].currentTask = t

C15_PreferredAgentOnly ==
  /\ [](PassHonoursPreference(Cur))
  /\ [][StartedOnPreferred]_vars

\* A pass has skipped a preferring task: the scheduler runs, T2 is ready and
\* prefers A1, A1 is busy with T1, A2 is idle and a slot is free.
C15_Witness ==
  /\ running
  /\ canStartNewAgent(Cur)
  /\ \E t \in ToSet(getReadyTasks(Cur)) : \E p \in AgentIds :
       /\ tasks[t].assignedAgent = p
       /\ agents[p].status = "running"
       /\ spawners[p] # 0
       /\ \E q \in AgentIds \ {p} : agents[q].status = "idle"

\* ---------------------------------------------------------------------
\* C16: the scheduling pass of start(), run with k ready tasks that name no
\* preferred agent, m idle agents and c = maxConcurrentAgents -
\* runningAgentCount free slots, starts exactly min(k, m, c) tasks: the first
\* ones in insertion order, each on a different idle agent, each task set to
\* in_progress and its agent to running.
Min3(k, m, c) ==
  LET c0 == IF c < 0 THEN 0 ELSE c
      km == IF k < m THEN k ELSE m
  IN IF km < c0 THEN km ELSE c0

StartedBy(t) == tasks[t].status = "pending" /\ tasks'[t].status = "in_progress"

PassStartsMin ==
  LET ready == getReadyTasks(Cur)
      n == Min3(Len(ready), Len(IdleAgents(Cur)),
                maxConcurrentAgents - getRunningAgentCount(Cur))
  IN (\A i \in 1..Len(ready) : tasks[ready[i]].assignedAgent = None) =>
       /\ \A i \in 1..Len(ready) : StartedBy(ready[i]) <=> i <= n
       /\ \A i \in 1..Len(ready) : StartedBy(ready[i]) =>
            LET a == tasks'[ready[i]].assignedAgent IN
            /\ a # None
            /\ agents[a].status = "idle"
            /\ agents'[a].status = "running"
            /\ agents'[a].currentTask = ready[i]
       /\ \A i, j \in 1..Len(ready) :
            StartedBy(ready[i]) /\ StartedBy(ready[j]) /\ i # j =>
              tasks'[ready[i]].assignedAgent # tasks'[ready[j]].assignedAgent

C16_PassStartsMin == [][~running /\ running' => PassStartsMin]_vars

\* ---------------------------------------------------------------------
\* C17: while the scheduler runs, a task does not stay startable forever: if
\* from some point on the task is ready, some agent is idle and
\* runningAgentCount < maxConcurrentAgents, the task is eventually started,
\* whichever operation made those conditions true.
Startable(t) ==
  /\ running
  /\ \E i \in 1..Len(getReadyTasks(Cur)) : getReadyTasks(Cur)[i] = t
  /\ IdleAgents(Cur) # <<>>
  /\ canStartNewAgent(Cur)

C17_ReadyTaskStarted == \A t \in TaskIds : ~<>[]Startable(t)

\* ---------------------------------------------------------------------
\* C18: a step that makes a task failed (non-zero exit, stream error,
\* stopAgent, shutdown or timeout) keeps the task in the table with the log
\* lines recorded so far, and the failure reason is then in its logs.
ReasonLine(l) ==
  \E i \in 1..Len(l) : SubSeq(l, 1, i) = "Error: "

BecomesFailed(t) == tasks[t].status \notin {"absent", "failed"} /\ tasks'[t].status = "failed"

C18_FailedTaskKeepsReason ==
  [][\A t \in TaskIds : BecomesFailed(t) =>
       /\ \E i \in 1..Len(taskOrder') : taskOrder'[i] = t
       /\ tasks'[t].logs # <<>>
       /\ ReasonLine(tasks'[t].logs[Len(tasks'[t].logs)])]_vars

\* ---------------------------------------------------------------------
\* C19: when the child process of a run reports a spawn error, the run's
\* task becomes failed and its agent leaves that task (idle again, or given
\* another task by the pass that follows), whichever way the 'error' and
\* 'close' callbacks interleave with the consumer loop; the task is not left
\* in_progress on a running agent and is not started again.
SpawnFailed(r) ==
  /\ runs[r].proc = "live"
  /\ \/ runs'[r].proc = "errored"
     \/ runs'[r].proc = "closed" /\ runs'[r].code = SpawnErrorCode

C19_SpawnErrorFailsTask ==
  [][\A r \in Slots : SpawnFailed(r) =>
       LET t == runs[r].task
           a == runs[r].agent
       IN /\ tasks[t].status = "in_progress" => tasks'[t].status = "failed"
          /\ agents[a].currentTask = t =>
               ~(agents'[a].status = "running" /\ agents'[a].currentTask = t)]_vars

\* ---------------------------------------------------------------------
\* C20: when the timeout of a run fires before its process has ended, the
\* process is aborted, and the run's task becomes failed with "Timeout
\* exceeded" as the reason recorded in its logs, and the agent leaves the task.
TimedOutRunEnds(r) ==
  /\ runs[r].aborted
  /\ runs[r].consumer = "waiting"
  /\ runs'[r].consumer = "done"

C20_TimeoutReason ==
  [][\A r \in Slots : TimedOutRunEnds(r) =>
       LET t == runs[r].task
           a == runs[r].agent
       IN /\ tasks'[t].status = "failed"
          /\ tasks'[t].logs # <<>>
          /\ tasks'[t].logs[Len(tasks'[t].logs)] = "Error: Timeout exceeded"
          /\ ~(agents'[a].status = "running" /\ agents'[a].currentTask = t)]_vars

\* ---------------------------------------------------------------------
\* C21: a health check that aborts an unresponsive agent re-queues the
\* agent's task without a terminal failure: the task goes to pending, and no
\* taskFailed event is emitted for it (its status is never failed for a
\* listener to see).
HealthCheckDue == running /\ Unhealthy(Cur) # <<>>

C21_RequeueNotFailure ==
  HealthCheckDue =>
    LET res == performHealthCheck(Cur) IN
    \A i \in 1..Len(Unhealthy(Cur)) :
      LET t == agents[Unhealthy(Cur)[i]].currentTask IN
      t # None =>
        /\ res.tasks[t].status \in {"pending", "in_progress"}
        /\ \A e \in res.ev : ~(e[1] = "taskFailed" /\ e[2] = t)

\* ---------------------------------------------------------------------
\* C22: for one spawn stream the consumer receives every event the process
\* callbacks pushed before the stream ended, each once and in the order it
\* was pushed, however the stdout, stderr, close and error callbacks
\* interleave with the consumer's pulls; the scheduler's handler appends a
\* line per received event to the logs in that same order.
IsPrefix(a, b) == Len(a) <= Len(b) /\ SubSeq(b, 1, Len(a)) = a

StreamInOrder ==
  /\ stream.pushed = stream.yielded \o stream.queue \/ stream.consumer = "ended"
  /\ IsPrefix(stream.yielded, stream.pushed)
  /\ stream.logs = [i \in 1..Len(stream.yielded) |-> EventLine(stream.yielded[i])]

\* The generator returns only with nothing left in the queue.
StreamEndsDrained ==
  stream.consumer # "ended" /\ stream'.consumer = "ended" =>
    /\ stream.queue = <<>>
    /\ stream'.yielded = stream.pushed
    /\ stream'.yielded = stream.yielded

C22_StreamOrder ==
  /\ []StreamInOrder
  /\ [][StreamEndsDrained]_vars
  /\ [][stream.consumer = "ended" => stream'.yielded = stream.yielded]_vars

\* The stream has ended after the consumer fell behind: it received stdout
\* and stderr events and the exit event, and the last step delivered nothing.
C22_Witness ==
  /\ stream.consumer = "ended"
  /\ Len(stream.yielded) = MaxPushed
  /\ \E i, j \in 1..Len(stream.yielded) :
       i < j /\ stream.yielded[i][1] = "stderr" /\ stream.yielded[j][1] = "stdout"
  /\ stream.yielded[Len(stream.yielded)][1] = "exit"

\* ---------------------------------------------------------------------
\* C23: every stream of spawn yields exactly one exit event, carrying the
\* process's exit code, as its last event; a non-blank partial line left in
\* the buffer when the process ends is yielded as one event right before it.
Exits(seq) == {i \in 1..Len(seq) : seq[i][1] = "exit"}
Finals(seq) == {i \in 1..Len(seq) : seq[i][1] = "final"}

C23_OneExitLast ==
  stream.consumer = "ended" =>
    LET y == stream.yielded IN
    /\ Exits(y) = {Len(y)}
    /\ Len(y) > 0
    /\ Finals(y) = IF stream.buffer THEN {Len(y) - 1} ELSE {}

\* C24: when the process cannot be started, the stream yields one error
\* event, then an exit event, and ends, whatever the timing of the child's
\* 'error' and 'close' callbacks and of the consumer's pulls.
C24_ErrorThenExit ==
  stream.consumer = "ended" /\ (\E i \in 1..Len(stream.pushed) : stream.pushed[i][1] = "error") =>
    /\ Len(stream.yielded) = 2
    /\ stream.yielded[1][1] = "error"
    /\ stream.yielded[2][1] = "exit"

\* ---------------------------------------------------------------------
\* C25: CliSpawner.abort is idempotent: however many times abort is called
\* on one spawner (before spawn, while the process runs, after it exited,
\* by the caller or by the timeout), the abort notification is emitted once,
\* SIGTERM is sent at most once and at most one SIGKILL timer is armed; a
\* repeated call changes nothing.
C25_AbortIdempotent ==
  /\ stream.abortEvents <= 1
  /\ stream.signals <= 1
  /\ stream.killTimers <= 1
  /\ stream.abortCalls >= 1 => stream.abortEvents = 1 /\ stream.aborted
  /\ CliSpawnerAbort(CliSpawnerAbort(stream)) = CliSpawnerAbort(stream)

\* abort was called twice on a spawner whose process had been started: the
\* first call sent the signal.
C25_Witness ==
  /\ stream.abortCalls = MaxAborts
  /\ stream.spawned
  /\ stream.signals = 1
  /\ stream.abortEvents = 1

\* ---------------------------------------------------------------------
\* C26: autoCommit on a working tree with no pending change returns null and
\* does nothing: it runs no add and no commit, and the commits (HEAD) and
\* every path's state (the index) stay as they were.
NoPendingChanges == \A f \in FileSet : git.tree[f] = "clean"

C26_AutoCommitNoChanges ==
  /\ [](NoPendingChanges =>
          \A m \in Modules, a \in AgentNames, d \in Descriptions, files \in SUBSET FileSet :
            LET res == autoCommit(git, m, a, d, files) IN
            /\ res.ret = [kind |-> "null"]
            /\ res.cmds = <<"status">>
            /\ res.tree = git.tree
            /\ res.commits = git.commits)
  /\ [][git'.ret.kind = "null" =>
          /\ NoPendingChanges
          /\ git'.tree = git.tree
          /\ git'.commits = git.commits]_vars

\* A commit was made and the autoCommit that followed returned null.
C26_Witness ==
  /\ git.ret.kind = "null"
  /\ Len(git.commits) >= 1
  /\ NoPendingChanges

\* ---------------------------------------------------------------------
\* C27: when autoCommit creates a commit, the message given to git and
\* returned in the commit record is "[" module "]-[" agentId "]" followed by
\* the fullwidth colon and the description, in that order, nothing more.
MessageRight(msg, m, a, d) ==
  LET lm == Len(m)
      la == Len(a)
  IN /\ Len(msg) = lm + la + Len(d) + 6
     /\ msg[1] = "["
     /\ SubSeq(msg, 2, lm + 1) = m
     /\ SubSeq(msg, lm + 2, lm + 4) = <<"]", "-", "[">>
     /\ SubSeq(msg, lm + 5, lm + la + 4) = a
     /\ msg[lm + la + 5] = "]"
     /\ msg[lm + la + 6] = FullwidthColon
     /\ SubSeq(msg, lm + la + 7, Len(msg)) = d

UnmergedPaths == {f \in FileSet : git.tree[f] \in UnmergedCodes}

ConflictFiles(ret) == {ret.conflicts[i].file : i \in 1..Len(ret.conflicts)}

C28_MergeOutcomes ==
  /\ UnmergedPaths = {} => mergeBranch(git, TRUE, TRUE).ret.kind = "success"
  /\ LET ret == mergeBranch(git, FALSE, TRUE).ret IN
     /\ ret.kind # "success"
     /\ UnmergedPaths = {} => ret.kind = "throw"
     /\ UnmergedPaths # {} => ret.kind = "conflict" /\ UnmergedPaths \subseteq ConflictFiles(ret)

\* ---------------------------------------------------------------------
\* C29: detectConflicts classifies status lines by their two-letter code:
\* UU both_modified, UD deleted_by_them, DU deleted_by_us, AA both_added;
\* it gives one entry per such line, with the line's path, in the order of
\* the lines, and no entry for a line with any other code.
Classified == {"UU", "UD", "DU", "AA"}

EntryRight(entry, f) ==
  /\ entry.file = f
  /\ git.tree[f] = "UU" => entry.type = "both_modified"
  /\ git.tree[f] = "UD" => entry.type = "deleted_by_them"
  /\ git.tree[f] = "DU" => entry.type = "deleted_by_us"
  /\ git.tree[f] = "AA" => entry.type = "both_added"

C29_ConflictClassification ==
  LET res == detectConflicts(execGitStatus(git.tree), TRUE)
      expected == SelectSeq(Files, LAMBDA f : git.tree[f] \in Classified)
  IN /\ Len(res) = Len(expected)
     /\ \A i \in 1..Len(res) : EntryRight(res[i], expected[i])

\* detectConflicts has returned one entry for a tree whose first listed path
\* has another code (a blank first, which execGit trims away, or an
\* unmerged one outside the four).
C29_Witness ==
  /\ git.ret.kind = "conflicts"
  /\ Len(git.ret.conflicts) = 1
  /\ git.ret.conflicts[1].file = Files[2]
  /\ git.ret.conflicts[1].type = "deleted_by_us"
  /\ git.tree[Files[1]] \in {" M", "AU"}

\* ---------------------------------------------------------------------
\* C30: no two tasks that are in_progress at the same time run in the same
\* working directory: the directories given to their processes
\* (task.worktreePath, else the agent's workdir) are pairwise distinct.
RunsIn(r) == Cwd(dirs, runs[r].task, runs[r].agent)

Executing(r) ==
  /\ runs[r].proc = "live"
  /\ tasks[runs[r].task].status = "in_progress"
  /\ tasks[runs[r].task].assignedAgent = runs[r].agent

C30_DistinctWorkingDirs ==
  \A r1, r2 \in Slots :
    r1 # r2 /\ Executing(r1) /\ Executing(r2) /\ runs[r1].task # runs[r2].task
      => RunsIn(r1) # RunsIn(r2)

\* ---------------------------------------------------------------------
\* C31: scheduler state has a single writer at a time: scheduling passes,
\* health-check passes and process-completion callbacks do not interleave,
\* and a completion callback has finished its updates of task and agent
\* state before the pass it triggers reads (and writes) that state.  So what
\* the pass of a callback wrote is still there when the callback returns:
\* the run it started for an agent is the agent's registered spawner, and
\* the agent and the task carry that run.
StartedByLastCallback(r) == runs[r].fresh /\ runs[r].proc = "live"

C31_SingleWriter ==
  \A r \in Slots : StartedByLastCallback(r) =>
    /\ spawners[runs[r].agent] = r
    /\ agents[runs[r].agent].status = "running"
    /\ agents[runs[r].agent].currentTask = runs[r].task
    /\ tasks[runs[r].task].status = "in_progress"

\* ---------------------------------------------------------------------
\* C32: the timeout of a run calls abort("Timeout exceeded") exactly when it
\* elapses while the process has not closed, has not reported an error and
\* the spawner has not been aborted: each of the three cancels the pending
\* timeout, so the timer is armed only while none of them has happened, and
\* the timeout's abort takes effect at most once.
C32_TimeoutOnlyWhileRunning ==
  /\ stream.timer =>
       /\ stream.proc \in {"live", "failing"}
       /\ ~stream.aborted
  /\ stream.abortEvents <= 1

\* ---------------------------------------------------------------------
\* C33: the exit of a process whose run was already ended by stopAgent or by
\* a health-check abort changes nothing of a newer state: it does not fail
\* the task once the task was re-queued, restarted or completed, does not
\* touch the agent once the agent has started another run, and does not
\* remove the spawner of the agent's newer run.
EndedRun(r) ==
  /\ runs[r].consumer = "waiting"
  /\ runs[r].aborted
  /\ agents[runs[r].agent].run # r

StaleExit(r) == EndedRun(r) /\ runs[r].proc # "closed" /\ runs'[r].proc = "closed"

C33_StaleExitHarmless ==
  [][\A r \in Slots : StaleExit(r) =>
       LET t == runs[r].task
           a == runs[r].agent
       IN /\ tasks[t].status \in {"pending", "in_progress", "completed"}
               => tasks'[t].status # "failed"
          /\ agents[a].run # 0 =>
               /\ agents'[a].run = agents[a].run
               /\ agents'[a].status = agents[a].status
               /\ agents'[a].currentTask = agents[a].currentTask
          /\ spawners[a] \notin {0, r} => spawners'[a] = spawners[a]]_vars

\* ---------------------------------------------------------------------
\* C34: completed is absorbing under the scheduler's own transitions: no
\* exit handling, stopAgent, shutdown, health check or scheduling pass
\* changes the status of a completed task, so a dependent never loses a
\* dependency it had met.
C34_CompletedAbsorbing ==
  [][\A t \in TaskIds : tasks[t].status = "completed" => tasks'[t].status = "completed"]_vars

\* ---------------------------------------------------------------------
\* C35: agent and task records are consistent in every state between
\* operations and callbacks: an agent is running exactly when its
\* currentTask is set, that task is then in the table, in_progress and
\* assigned to this agent; and every in_progress task is the currentTask of
\* exactly one running agent.
C35_RecordsConsistent ==
  /\ \A a \in AgentIds : agents[a].status # "unreg" =>
       /\ agents[a].status = "running" <=> agents[a].currentTask # None
       /\ agents[a].status = "running" =>
            /\ tasks[agents[a].currentTask].status = "in_progress"
            /\ tasks[agents[a].currentTask].assignedAgent = a
  /\ \A t \in TaskIds : tasks[t].status = "in_progress" =>
       Cardinality({a \in AgentIds : agents[a].status = "running"
                                       /\ agents[a].currentTask = t}) = 1

\* ---------------------------------------------------------------------
\* C36: the number of agent processes alive at the same time (spawned and
\* not yet exited) never exceeds maxConcurrentAgents, also while a process
\* that stopAgent or a health check has signalled has not exited yet.
AliveProcesses == {r \in Slots : runs[r].proc \in {"live", "termed"}}

C36_AliveProcessesBounded == Cardinality(AliveProcesses) <= maxConcurrentAgents

\* ---------------------------------------------------------------------
\* C37: a scheduling pass never selects an agent whose status is aborted.
\* The agent leaves that status only in a step that processes the exit of a
\* process started for it (the health check stops running agents only and
\* returns them to idle in the same callback).  So an agent stopped while no
\* process of it is left stays aborted for ever, and while every registered
\* agent is in that condition no pending task is started.
ExitProcessedFor(a) ==
  \E r \in Slots : /\ runs[r].agent = a
                   /\ runs[r].consumer = "waiting"
                   /\ runs'[r].consumer = "done"
                   /\ runs'[r].proc = "closed"

AbortedForGood(a) ==
  /\ agents[a].status = "aborted"
  /\ \A r \in Slots : runs[r].agent = a => runs[r].consumer # "waiting"

Events == {<<"stdout">>, <<"stderr">>, <<"exit", "0">>, <<"exit", "1">>, <<"exit", "null">>}

Responsive(a) == agents[a].status = "running" /\ ~agents[a].inactive

Refreshed ==
  \A r \in Slots : runs[r].consumer = "waiting" =>
    \A e \in Events :
      LET res == Norm(ConsumeEvent(Settled(Cur), r, e)) IN
      /\ ~res.agents[runs[r].agent].inactive
      /\ \A i \in 1..Len(Unhealthy(res)) : Unhealthy(res)[i] # runs[r].agent

Spared(res, a) ==
  /\ res.agents[a] = agents[a]
  /\ res.tasks[agents[a].currentTask] = tasks[agents[a].currentTask]
  /\ res.spawners[a] = spawners[a]
  /\ res.runs[agents[a].run].aborted = runs[agents[a].run].aborted
  /\ res.runs[agents[a].run].proc = runs[agents[a].run].proc

C38_ActiveAgentNotAborted ==
  /\ [](Refreshed)
  /\ [](\A a \in AgentIds : Responsive(a) =>
          Spared(Norm(performHealthCheck(Settled(Cur))), a))
  /\ [][HealthCheck =>
          \A a \in AgentIds : Responsive(a) =>
            /\ agents'[a] = agents[a]
            /\ tasks'[agents[a].currentTask] = tasks[agents[a].currentTask]
            /\ spawners'[a] = spawners[a]
            /\ runs'[agents[a].run].aborted = runs[agents[a].run].aborted]_vars

\* A health check is due for one agent while another, whose run has lasted
\* longer than the timeout, has delivered an event and is not overdue.
C38_Witness ==
  /\ HealthCheckDue
  /\ \E a \in AgentIds :
       /\ Responsive(a)
       /\ agents[a].run # 0
       /\ ~runs[agents[a].run].timer
       /\ tasks[agents[a].currentTask].logs # <<>>

\* ---------------------------------------------------------------------
\* C39: for a task table without a dependency cycle getTopologicalOrder()
\* returns a list that holds every task id of the table exactly once, each
\* task after all of its dependencies that are in the table; a dependency id
\* that names no task of the table is skipped and is not in the list.
TaskTable == {t \in TaskIds : tasks[t].status # "absent"}

TopoOrderRight(res) ==
  (\A t \in TaskIds : ~OnCycle(t)) =>
    /\ res.err = None
    /\ Len(res.result) = Cardinality(TaskTable)
    /\ ToSet(res.result) = TaskTable
    /\ \A i, j \in 1..Len(res.result) :
         DependsOn(res.result[i], res.result[j]) => j < i

C39_TopologicalOrder ==
  /\ [](\A ord \in DepOrders : TopoOrderRight(getTopologicalOrder(Cur, ord)))
  /\ [][topo' # topo => TopoOrderRight(topo')]_vars

\* A call returned the order of the present table, which is not the order
\* the tasks were added in, and a task of the table names a dependency that
\* is not in the table.
C39_Witness ==
  /\ topo.err = None
  /\ \A t \in TaskIds : ~OnCycle(t)
  /\ ToSet(topo.result) = TaskTable
  /\ Len(topo.result) = Len(taskOrder)
  /\ topo.result # taskOrder
  /\ \E t \in TaskTable : \E d \in tasks[t].deps : d \notin TaskTable

\* ---------------------------------------------------------------------
\* C40: the consumer of a spawn stream suspends only when the FIFO is empty
\* and the process is not done; a callback that pushes an event or marks the
\* process done wakes a suspended consumer.  No wake-up is lost: the
\* consumer is never suspended while an event is queued, an event queued for
\* a consumer that has not returned is delivered, and once the process is
\* done the stream ends, with nothing left of what was queued before.
Suspended == stream.consumer = "parked"

SuspendsOnlyWhenIdle ==
  ~Suspended /\ stream'.consumer = "parked" => stream.queue = <<>> /\ ~stream.done

WakesSuspended ==
  Suspended /\ (stream'.pushed # stream.pushed \/ stream'.done # stream.done)
    => stream'.consumer = "woken"

C40_NoLostWakeup ==
  /\ [](Suspended => stream.queue = <<>> /\ ~stream.done)
  /\ [][SuspendsOnlyWhenIdle]_vars
  /\ [][WakesSuspended]_vars
  /\ \A n \in 0..MaxPushed :
       (stream.consumer # "ended" /\ stream.queue # <<>> /\ Len(stream.yielded) = n)
         ~> Len(stream.yielded) > n
  /\ stream.done ~> stream.consumer = "ended"

\* A suspended consumer that had received events before has been woken by a
\* callback that queued two events, and has not run yet.
C40_Witness ==
  /\ stream.consumer = "woken"
  /\ Len(stream.queue) >= 2
  /\ stream.yielded # <<>>
  /\ ~stream.done

====
